---- MODULE Spec2Model ----
(***************************************************************************)
(* State-machine model of Source/main.cpp: VulkanTutorialApp::run() as it  *)
(* is driven by main().  One action per call made by init(), one for an    *)
(* iteration of mainLoop(), one for cleanup(), one for each exit of main() *)
(* and one for each member the implicit destructor of VulkanTutorialApp    *)
(* destroys.  What SDL and the Vulkan driver answer is chosen inside the   *)
(* action that asks; the locals a call worked on stay visible in frame     *)
(* until the next call starts.                                             *)
(***************************************************************************)
EXTENDS Integers, Sequences, FiniteSets, TLC

VARIABLES
    pc,                     \* position of main(): the call that runs next
    enableValidationLayers, \* main.cpp:15-19, fixed by the build
    sdlInitialized,         \* SDL_Init succeeded and SDL_Quit has not run
    vulkanLibraryLoaded,    \* SDL_Vulkan_LoadLibrary .. SDL_Vulkan_UnloadLibrary
    _window,                \* "null", "alive" or "destroyed"
    _context,
    _instance,
    _debugMessenger,
    _physicalDevice,
    _device,
    _surface,
    _graphicsQueue,
    _presentQueue,
    _swapChain,
    _swapChainImages,
    _swapChainImageFormat,
    _swapChainExtent,
    _swapChainImageViews,
    exception,              \* what() of the exception in flight or caught
    exitStatus,             \* value returned by main()
    stages,                 \* the calls init()/run() have started, in order
    released,               \* the Vulkan objects destroyed so far, in order
    destroyed,              \* how many members the destructor has passed
    frame                   \* locals of the call that ran last

members ==
    << _window, _context, _instance, _debugMessenger, _physicalDevice, _device,
       _surface, _graphicsQueue, _presentQueue, _swapChain, _swapChainImages,
       _swapChainImageFormat, _swapChainExtent, _swapChainImageViews >>

process ==
    << pc, enableValidationLayers, sdlInitialized, vulkanLibraryLoaded,
       exception, exitStatus, stages, released, destroyed >>

vars == << members, process, frame >>

(***************************************************************************)
(* Bounds of the model.                                                    *)
(***************************************************************************)
MaxDevices == 2        \* longest list enumeratePhysicalDevices answers
MaxFamilies == 2       \* most queue families a device reports
MaxImageCount == 4     \* largest min/maxImageCount a surface reports
MaxFormats == 2        \* longest list getSurfaceFormatsKHR answers
MaxPresentModes == 2   \* longest list getSurfacePresentModesKHR answers

(***************************************************************************)
(* Program constants.                                                      *)
(***************************************************************************)
\* std::numeric_limits<uint32_t>::max().  TLC's integers are 32-bit signed,
\* so uint32_t is modelled as 0..UINT32_MAX with a scaled-down top value; the
\* code uses it only as "largest value of the type" and as a sentinel.
UINT32_MAX == 255

\* VK_MAKE_API_VERSION(0, 1, 4, 0) and (0, 1, 3, 0): (1 << 22) | (minor << 12)
VK_API_VERSION_1_4 == 4210688
VK_API_VERSION_1_3 == VK_API_VERSION_1_4 - 4096

\* the 3u of std::max(3u, surfaceCapabilities.minImageCount)
PreferredImageCount == 3

_requiredDeviceExtensions ==
    << "VK_KHR_swapchain", "VK_KHR_spirv_1_4", "VK_KHR_synchronization2",
       "VK_KHR_create_renderpass2" >>

validationLayers == << "VK_LAYER_KHRONOS_validation" >>

EXTDebugUtilsExtensionName == "VK_EXT_debug_utils"

NoException == "none"

Range(s) == { s[i] : i \in DOMAIN s }

SeqsUpTo(S, n) == UNION { [1..k -> S] : k \in 0..n }

ToUint32(x) == x % (UINT32_MAX + 1)

Max(a, b) == IF a < b THEN b ELSE a

\* std::clamp(v, lo, hi) for lo <= hi
Clamp(v, lo, hi) == IF v < lo THEN lo ELSE IF hi < v THEN hi ELSE v

Min(S) == CHOOSE x \in S : \A y \in S : x <= y

(***************************************************************************)
(* Values of the members before init() has assigned them.                  *)
(***************************************************************************)
Extent2D(w, h) == [width |-> w, height |-> h]

NullInstance == [state |-> "null", layers |-> << >>, extensions |-> << >>]

NullPhysicalDevice ==
    [state |-> "null", apiVersion |-> 0, queueFlags |-> << >>, extensions |-> {},
     dynamicRendering |-> FALSE, extendedDynamicState |-> FALSE]

NullDevice == [state |-> "null", queueFamilyIndex |-> UINT32_MAX, extensions |-> << >>]

NullQueue == [state |-> "null", queueFamilyIndex |-> UINT32_MAX]

NoCreateInfo ==
    [minImageCount |-> 0, imageFormat |-> "eUndefined", imageColorSpace |-> "eSrgbNonlinear",
     imageExtent |-> Extent2D(0, 0), presentMode |-> "eFifo"]

NullSwapchain == [state |-> "null", createInfo |-> NoCreateInfo]

NoCapabilities ==
    [minImageCount |-> 0, maxImageCount |-> 0, currentExtent |-> Extent2D(0, 0),
     minImageExtent |-> Extent2D(0, 0), maxImageExtent |-> Extent2D(0, 0)]

\* the locals of a call that has not run: nothing queried, nothing computed
EmptyFrame ==
    [call |-> "none",
     requiredLayers |-> << >>, requiredExtensions |-> << >>,
     layerProperties |-> {}, extensionProperties |-> {},
     devices |-> << >>, deviceIter |-> 0,
     surfaceSupport |-> << >>, queried |-> {},
     graphicsQueueIndex |-> UINT32_MAX, presentQueueIndex |-> UINT32_MAX,
     surfaceCapabilities |-> NoCapabilities, availableFormats |-> << >>,
     availablePresentModes |-> << >>, windowSizeInPixels |-> Extent2D(0, 0),
     swapChainCreateInfo |-> NoCreateInfo]

(***************************************************************************)
(* What the platform, the loader and the driver may answer.                *)
(***************************************************************************)
\* SDL_Vulkan_GetInstanceExtensions on the platform the program runs on
SDLInstanceExtensions == << "VK_KHR_surface", "VK_KHR_xcb_surface" >>

LayerNames == { "VK_LAYER_KHRONOS_validation", "VK_LAYER_LUNARG_api_dump" }

InstanceExtensionNames == { "VK_KHR_surface", "VK_KHR_xcb_surface", "VK_EXT_debug_utils" }

PhysicalDevice(api, flags, ext, dr, eds) ==
    [state |-> "valid", apiVersion |-> api, queueFlags |-> flags, extensions |-> ext,
     dynamicRendering |-> dr, extendedDynamicState |-> eds]

\* a device that meets every requirement, with the given eGraphics bits
CapableDevice(flags) ==
    PhysicalDevice(VK_API_VERSION_1_4, flags, Range(_requiredDeviceExtensions), TRUE, TRUE)

\* queueFlags & eGraphics of each family of a device
QueueFlagLists == SeqsUpTo(BOOLEAN, MaxFamilies)

\* The devices a driver may enumerate: every list of graphics bits on an
\* otherwise capable device, and devices that lack one requirement or two.
DeviceDescriptors ==
    { CapableDevice(flags) : flags \in QueueFlagLists }
    \cup { [CapableDevice(<< TRUE >>) EXCEPT !.apiVersion = VK_API_VERSION_1_3] }
    \cup { [CapableDevice(<< TRUE >>) EXCEPT !.extensions = @ \ {e}] :
              e \in Range(_requiredDeviceExtensions) }
    \cup { [CapableDevice(<< TRUE >>) EXCEPT !.extensions = @ \cup {"VK_KHR_maintenance1"}] }
    \cup { [CapableDevice(<< TRUE >>) EXCEPT !.dynamicRendering = dr, !.extendedDynamicState = eds] :
              dr \in BOOLEAN, eds \in BOOLEAN }
    \cup { [CapableDevice(<< >>) EXCEPT !.apiVersion = VK_API_VERSION_1_3, !.extensions = {}] }

SurfaceFormat(f, c) == [format |-> f, colorSpace |-> c]

Formats == { "eB8G8R8A8Srgb", "eR8G8B8A8Unorm" }

ColorSpaces == { "eSrgbNonlinear", "eDisplayP3NonlinearEXT" }

SurfaceFormats == { SurfaceFormat(f, c) : f \in Formats, c \in ColorSpaces }

\* getSurfaceFormatsKHR: a surface the device presents to has one format or more
FormatLists == SeqsUpTo(SurfaceFormats, MaxFormats) \ { << >> }

PresentModes == { "eFifo", "eMailbox", "eImmediate" }

PresentModeLists == SeqsUpTo(PresentModes, MaxPresentModes)

\* widths and heights a surface reports, and pixel sizes of the window
ExtentValues == { 1, 2 }

WindowSizes == { 0, 1, 2, 3 }

Capabilities(lo, hi, cur, minExt, maxExt) ==
    [minImageCount |-> lo, maxImageCount |-> hi, currentExtent |-> cur,
     minImageExtent |-> minExt, maxImageExtent |-> maxExt]

\* minImageCount >= 1, and maxImageCount is 0 (no limit) or >= minImageCount
ImageCounts ==
    { c \in (1..MaxImageCount) \X (0..MaxImageCount) : c[2] = 0 \/ c[1] <= c[2] }

\* currentExtent is any pair, the special value included in either place;
\* minImageExtent <= maxImageExtent in both components
Extents ==
    { e \in [cur : (ExtentValues \cup {UINT32_MAX}) \X (ExtentValues \cup {UINT32_MAX}),
              lo : ExtentValues \X ExtentValues, hi : ExtentValues \X ExtentValues] :
        e.lo[1] <= e.hi[1] /\ e.lo[2] <= e.hi[2] }

SwapChainInput(c, e, formats, modes, w, h) ==
    [capabilities |-> Capabilities(c[1], c[2], Extent2D(e.cur[1], e.cur[2]),
                                   Extent2D(e.lo[1], e.lo[2]), Extent2D(e.hi[1], e.hi[2])),
     formats |-> formats, presentModes |-> modes, window |-> Extent2D(w, h)]

UsualCounts == << 2, 0 >>

UsualExtents == [cur |-> << 2, 2 >>, lo |-> << 1, 1 >>, hi |-> << 2, 2 >>]

UsualFormats == << SurfaceFormat("eB8G8R8A8Srgb", "eSrgbNonlinear") >>

UsualPresentModes == << "eFifo" >>

\* What createSwapChain may be answered: each of the four groups of answers
\* (image counts, extents and window size, formats, present modes) takes
\* every value of its set while the other three take their usual value.
SwapChainInputs ==
    { SwapChainInput(c, UsualExtents, UsualFormats, UsualPresentModes, 2, 2) : c \in ImageCounts }
    \cup { SwapChainInput(UsualCounts, e, UsualFormats, UsualPresentModes, w, h) :
              e \in Extents, w \in WindowSizes, h \in WindowSizes }
    \cup { SwapChainInput(UsualCounts, UsualExtents, f, UsualPresentModes, 2, 2) : f \in FormatLists }
    \cup { SwapChainInput(UsualCounts, UsualExtents, UsualFormats, m, 2, 2) : m \in PresentModeLists }

(***************************************************************************)
(* The decisions of the program, computed as the code computes them.       *)
(***************************************************************************)
getRequiredLayers == IF enableValidationLayers THEN validationLayers ELSE << >>

\* getRequiredExtensions without the push_back of the debug-utils extension
getRequiredExtensions_WithoutDebugUtils == SDLInstanceExtensions

getRequiredExtensions ==
    IF enableValidationLayers
        THEN Append(SDLInstanceExtensions, EXTDebugUtilsExtensionName)
        ELSE SDLInstanceExtensions

\* position of the first required name std::ranges::none_of finds no
\* available name equal to; 0 when every required name is available
FirstMissing(required, available) ==
    LET missing == { i \in DOMAIN required : required[i] \notin available }
    IN  IF missing = {} THEN 0 ELSE Min(missing)

\* the lambda with > in place of >= in the API version test
IsSuitable_NewerThanMinimum(device) ==
    /\ device.apiVersion > VK_API_VERSION_1_4
    /\ \E i \in DOMAIN device.queueFlags : device.queueFlags[i]
    /\ \A i \in DOMAIN _requiredDeviceExtensions :
           _requiredDeviceExtensions[i] \in device.extensions
    /\ device.dynamicRendering /\ device.extendedDynamicState

\* the lambda std::ranges::find_if applies to each device
IsSuitable(device) ==
    LET supportsVulkanAPI == device.apiVersion >= VK_API_VERSION_1_4
        supportsGraphics == \E i \in DOMAIN device.queueFlags : device.queueFlags[i]
        supportsAllRequiredExtensions ==
            \A i \in DOMAIN _requiredDeviceExtensions :
                _requiredDeviceExtensions[i] \in device.extensions
        supportsRequiredFeatures == device.dynamicRendering /\ device.extendedDynamicState
    IN  supportsVulkanAPI /\ supportsGraphics /\ supportsAllRequiredExtensions
            /\ supportsRequiredFeatures

\* a search that keeps the last device the lambda accepts, not the first
FindSuitable_Last(ds) ==
    LET found == { i \in DOMAIN ds : IsSuitable(ds[i]) }
    IN  IF found = {} THEN 0 ELSE CHOOSE i \in found : \A j \in found : j <= i

\* std::ranges::find_if over devices: the position (from 1) of the first
\* device the lambda accepts, 0 for devices.end()
FindSuitable(ds) ==
    LET found == { i \in DOMAIN ds : IsSuitable(ds[i]) }
    IN  IF found = {} THEN 0 ELSE Min(found)

\* the for loop without its break
RECURSIVE ScanQueueFamilies_NoBreak(_, _, _, _, _, _)
ScanQueueFamilies_NoBreak(qfpIndex, flags, support, graphics, present, asked) ==
    IF qfpIndex >= Len(flags)
        THEN [graphicsQueueIndex |-> graphics, presentQueueIndex |-> present, queried |-> asked]
        ELSE ScanQueueFamilies_NoBreak(qfpIndex + 1, flags, support,
                                       IF flags[qfpIndex + 1] THEN qfpIndex ELSE graphics,
                                       IF support[qfpIndex + 1] THEN qfpIndex ELSE present,
                                       asked \cup {qfpIndex})

\* the for loop of createLogicalDevice from family qfpIndex on (families are
\* numbered from 0 as in the code; flags and support are sequences from 1)
RECURSIVE ScanQueueFamilies(_, _, _, _, _, _)
ScanQueueFamilies(qfpIndex, flags, support, graphics, present, asked) ==
    IF qfpIndex >= Len(flags)
        THEN [graphicsQueueIndex |-> graphics, presentQueueIndex |-> present, queried |-> asked]
        ELSE LET supportsGraphics == flags[qfpIndex + 1]
                 supportsSurface == support[qfpIndex + 1]
                 g == IF supportsGraphics THEN qfpIndex ELSE graphics
                 p == IF supportsSurface THEN qfpIndex ELSE present
             IN  IF supportsSurface /\ supportsGraphics
                     THEN [graphicsQueueIndex |-> g, presentQueueIndex |-> p,
                           queried |-> asked \cup {qfpIndex}]
                     ELSE ScanQueueFamilies(qfpIndex + 1, flags, support, g, p,
                                            asked \cup {qfpIndex})

\* the image count without the clamp to maxImageCount
ChooseImageCount_NoClamp(capabilities) ==
    Max(PreferredImageCount, capabilities.minImageCount)

\* the image count createSwapChain asks for
ChooseImageCount(capabilities) ==
    LET minImageCount == Max(PreferredImageCount, capabilities.minImageCount)
    IN  IF capabilities.maxImageCount > 0 /\ minImageCount > capabilities.maxImageCount
            THEN capabilities.maxImageCount
            ELSE minImageCount

\* returns the format alone, as the code does
chooseSwapSurfaceFormat(availableFormats) ==
    LET found == { i \in DOMAIN availableFormats :
                     /\ availableFormats[i].format = "eB8G8R8A8Srgb"
                     /\ availableFormats[i].colorSpace = "eSrgbNonlinear" }
    IN  IF found # {} THEN availableFormats[Min(found)].format ELSE availableFormats[1].format

\* a test of the first supported mode alone
chooseSwapPresentMode_FirstOnly(availablePresentModes) ==
    IF availablePresentModes # << >> /\ availablePresentModes[1] = "eMailbox"
        THEN "eMailbox"
        ELSE "eFifo"

chooseSwapPresentMode(availablePresentModes) ==
    IF \E i \in DOMAIN availablePresentModes : availablePresentModes[i] = "eMailbox"
        THEN "eMailbox"
        ELSE "eFifo"

\* chooseSwapExtent testing currentExtent.height where the code tests width
chooseSwapExtent_TestsHeight(capabilities, window) ==
    IF capabilities.currentExtent.height # UINT32_MAX
        THEN capabilities.currentExtent
        ELSE Extent2D(Clamp(ToUint32(window.width), capabilities.minImageExtent.width,
                            capabilities.maxImageExtent.width),
                      Clamp(ToUint32(window.height), capabilities.minImageExtent.height,
                            capabilities.maxImageExtent.height))

\* window is what SDL_GetWindowSizeInPixels stores in width and height
chooseSwapExtent(capabilities, window) ==
    IF capabilities.currentExtent.width # UINT32_MAX
        THEN capabilities.currentExtent
        ELSE Extent2D(Clamp(ToUint32(window.width), capabilities.minImageExtent.width,
                            capabilities.maxImageExtent.width),
                      Clamp(ToUint32(window.height), capabilities.minImageExtent.height,
                            capabilities.maxImageExtent.height))

\* the vk::SwapchainCreateInfoKHR createSwapChain fills in
SwapchainCreateInfo(capabilities, availableFormats, availablePresentModes, window) ==
    [minImageCount |-> ChooseImageCount(capabilities),
     imageFormat |-> chooseSwapSurfaceFormat(availableFormats),
     imageColorSpace |-> "eSrgbNonlinear",
     imageExtent |-> chooseSwapExtent(capabilities, window),
     presentMode |-> chooseSwapPresentMode(availablePresentModes)]

(***************************************************************************)
(* The program.                                                            *)
(***************************************************************************)
Init ==
    /\ pc = "SDL_Init"
    /\ enableValidationLayers \in BOOLEAN
    /\ sdlInitialized = FALSE
    /\ vulkanLibraryLoaded = FALSE
    /\ _window = "null"
    /\ _context = "alive"
    /\ _instance = NullInstance
    /\ _debugMessenger = "null"
    /\ _physicalDevice = NullPhysicalDevice
    /\ _device = NullDevice
    /\ _surface = "null"
    /\ _graphicsQueue = NullQueue
    /\ _presentQueue = NullQueue
    /\ _swapChain = NullSwapchain
    /\ _swapChainImages = 0
    /\ _swapChainImageFormat = "eUndefined"
    /\ _swapChainExtent = Extent2D(0, 0)
    /\ _swapChainImageViews = 0
    /\ exception = NoException
    /\ exitStatus = "none"
    /\ stages = << >>
    /\ released = << >>
    /\ destroyed = 0
    /\ frame = EmptyFrame

\* throw std::runtime_error(what), or a vk::SystemError out of vulkan_raii:
\* nothing in VulkanTutorialApp catches, so control is in main's handler next
Throw(what) ==
    /\ exception' = what
    /\ pc' = "catch"

\* the call returned: the next statement of init() or run() is next
Return(next) ==
    /\ pc' = next
    /\ UNCHANGED exception

Call(name) == [EmptyFrame EXCEPT !.call = name]

SDL_Init ==
    /\ pc = "SDL_Init"
    /\ stages' = Append(stages, "SDL_Init")
    /\ frame' = Call("SDL_Init")
    /\ \E ok \in BOOLEAN :
          IF ok
              THEN sdlInitialized' = TRUE /\ Return("SDL_Vulkan_LoadLibrary")
              ELSE UNCHANGED sdlInitialized /\ Throw("Failed to init SDL")
    /\ UNCHANGED << members, enableValidationLayers, vulkanLibraryLoaded, exitStatus,
                    released, destroyed >>

SDL_Vulkan_LoadLibrary ==
    /\ pc = "SDL_Vulkan_LoadLibrary"
    /\ stages' = Append(stages, "SDL_Vulkan_LoadLibrary")
    /\ frame' = Call("SDL_Vulkan_LoadLibrary")
    /\ \E ok \in BOOLEAN :
          IF ok
              THEN vulkanLibraryLoaded' = TRUE /\ Return("SDL_CreateWindow")
              ELSE UNCHANGED vulkanLibraryLoaded /\ Throw("Failed to load vulkan library")
    /\ UNCHANGED << members, enableValidationLayers, sdlInitialized, exitStatus,
                    released, destroyed >>

\* a NULL window is logged and init() returns: run() goes on to mainLoop()
SDL_CreateWindow ==
    /\ pc = "SDL_CreateWindow"
    /\ stages' = Append(stages, "SDL_CreateWindow")
    /\ frame' = Call("SDL_CreateWindow")
    /\ \E ok \in BOOLEAN :
          IF ok
              THEN _window' = "alive" /\ Return("initVulkanInstance")
              ELSE UNCHANGED _window /\ Return("mainLoop")
    /\ UNCHANGED << _context, _instance, _debugMessenger, _physicalDevice, _device,
                    _surface, _graphicsQueue, _presentQueue, _swapChain, _swapChainImages,
                    _swapChainImageFormat, _swapChainExtent, _swapChainImageViews,
                    enableValidationLayers, sdlInitialized, vulkanLibraryLoaded,
                    exitStatus, released, destroyed >>

initVulkanInstance ==
    /\ pc = "initVulkanInstance"
    /\ stages' = Append(stages, "initVulkanInstance")
    /\ \E layers \in SUBSET LayerNames, extensions \in SUBSET InstanceExtensionNames,
          created \in BOOLEAN :
          LET missingLayer == FirstMissing(getRequiredLayers, layers)
              missingExtension == FirstMissing(getRequiredExtensions, extensions)
              checkedLayers == [Call("initVulkanInstance") EXCEPT
                                   !.requiredLayers = getRequiredLayers,
                                   !.layerProperties = layers]
              checkedExtensions == [checkedLayers EXCEPT
                                       !.requiredExtensions = getRequiredExtensions,
                                       !.extensionProperties = extensions]
          IN  IF missingLayer # 0
                  THEN /\ frame' = checkedLayers
                       /\ Throw("Required layer not supported: "
                                    \o getRequiredLayers[missingLayer])
                       /\ UNCHANGED _instance
                  ELSE /\ frame' = checkedExtensions
                       /\ IF missingExtension # 0
                              THEN /\ Throw("Required extension not supported: "
                                                \o getRequiredExtensions[missingExtension])
                                   /\ UNCHANGED _instance
                              ELSE IF ~created
                                  THEN Throw("vk::SystemError: vkCreateInstance")
                                           /\ UNCHANGED _instance
                                  ELSE /\ _instance' = [state |-> "alive",
                                                        layers |-> getRequiredLayers,
                                                        extensions |-> getRequiredExtensions]
                                       /\ Return("setupDebugMessenger")
    /\ UNCHANGED << _window, _context, _debugMessenger, _physicalDevice, _device,
                    _surface, _graphicsQueue, _presentQueue, _swapChain, _swapChainImages,
                    _swapChainImageFormat, _swapChainExtent, _swapChainImageViews,
                    enableValidationLayers, sdlInitialized, vulkanLibraryLoaded,
                    exitStatus, released, destroyed >>

setupDebugMessenger ==
    /\ pc = "setupDebugMessenger"
    /\ stages' = Append(stages, "setupDebugMessenger")
    /\ frame' = Call("setupDebugMessenger")
    /\ IF ~enableValidationLayers
          THEN UNCHANGED _debugMessenger /\ Return("createSurface")
          ELSE \E created \in BOOLEAN :
                  IF created
                      THEN _debugMessenger' = "alive" /\ Return("createSurface")
                      ELSE UNCHANGED _debugMessenger
                               /\ Throw("vk::SystemError: vkCreateDebugUtilsMessengerEXT")
    /\ UNCHANGED << _window, _context, _instance, _physicalDevice, _device,
                    _surface, _graphicsQueue, _presentQueue, _swapChain, _swapChainImages,
                    _swapChainImageFormat, _swapChainExtent, _swapChainImageViews,
                    enableValidationLayers, sdlInitialized, vulkanLibraryLoaded,
                    exitStatus, released, destroyed >>

createSurface ==
    /\ pc = "createSurface"
    /\ stages' = Append(stages, "createSurface")
    /\ frame' = Call("createSurface")
    /\ \E ok \in BOOLEAN :
          IF ok
              THEN _surface' = "alive" /\ Return("pickPhysicalDevice")
              ELSE UNCHANGED _surface /\ Throw("failed to create window surface!")
    /\ UNCHANGED << _window, _context, _instance, _debugMessenger, _physicalDevice, _device,
                    _graphicsQueue, _presentQueue, _swapChain, _swapChainImages,
                    _swapChainImageFormat, _swapChainExtent, _swapChainImageViews,
                    enableValidationLayers, sdlInitialized, vulkanLibraryLoaded,
                    exitStatus, released, destroyed >>

pickPhysicalDevice ==
    /\ pc = "pickPhysicalDevice"
    /\ stages' = Append(stages, "pickPhysicalDevice")
    /\ \E ds \in SeqsUpTo(DeviceDescriptors, MaxDevices) :
          LET found == FindSuitable(ds)
          IN  IF ds = << >>
                  THEN /\ frame' = [Call("pickPhysicalDevice") EXCEPT !.devices = ds]
                       /\ Throw("failed to find GPUs with Vulkan support!")
                       /\ UNCHANGED _physicalDevice
                  ELSE /\ frame' = [Call("pickPhysicalDevice") EXCEPT
                                        !.devices = ds, !.deviceIter = found]
                       /\ IF found # 0
                              THEN _physicalDevice' = ds[found] /\ Return("createLogicalDevice")
                              ELSE UNCHANGED _physicalDevice
                                       /\ Throw("failed to find a suitable GPU!")
    /\ UNCHANGED << _window, _context, _instance, _debugMessenger, _device,
                    _surface, _graphicsQueue, _presentQueue, _swapChain, _swapChainImages,
                    _swapChainImageFormat, _swapChainExtent, _swapChainImageViews,
                    enableValidationLayers, sdlInitialized, vulkanLibraryLoaded,
                    exitStatus, released, destroyed >>

createLogicalDevice ==
    /\ pc = "createLogicalDevice"
    /\ stages' = Append(stages, "createLogicalDevice")
    /\ \E support \in [DOMAIN _physicalDevice.queueFlags -> BOOLEAN], created \in BOOLEAN :
          LET scan == ScanQueueFamilies(0, _physicalDevice.queueFlags, support,
                                        UINT32_MAX, UINT32_MAX, {})
          IN  /\ frame' = [Call("createLogicalDevice") EXCEPT
                               !.surfaceSupport = support,
                               !.queried = scan.queried,
                               !.graphicsQueueIndex = scan.graphicsQueueIndex,
                               !.presentQueueIndex = scan.presentQueueIndex]
              /\ IF scan.graphicsQueueIndex = UINT32_MAX \/ scan.presentQueueIndex = UINT32_MAX
                     THEN /\ Throw("Could not find a queue for graphics or present -> terminating")
                          /\ UNCHANGED << _device, _graphicsQueue, _presentQueue >>
                     ELSE IF scan.graphicsQueueIndex # scan.presentQueueIndex
                         THEN /\ Throw("Could not find a queue for both graphics and present.")
                              /\ UNCHANGED << _device, _graphicsQueue, _presentQueue >>
                         ELSE IF ~created
                             THEN /\ Throw("vk::SystemError: vkCreateDevice")
                                  /\ UNCHANGED << _device, _graphicsQueue, _presentQueue >>
                             ELSE /\ _device' = [state |-> "alive",
                                                 queueFamilyIndex |-> scan.graphicsQueueIndex,
                                                 extensions |-> _requiredDeviceExtensions]
                                  /\ _graphicsQueue' = [state |-> "valid",
                                                        queueFamilyIndex |-> scan.graphicsQueueIndex]
                                  /\ _presentQueue' = [state |-> "valid",
                                                       queueFamilyIndex |-> scan.presentQueueIndex]
                                  /\ Return("createSwapChain")
    /\ UNCHANGED << _window, _context, _instance, _debugMessenger, _physicalDevice,
                    _surface, _swapChain, _swapChainImages,
                    _swapChainImageFormat, _swapChainExtent, _swapChainImageViews,
                    enableValidationLayers, sdlInitialized, vulkanLibraryLoaded,
                    exitStatus, released, destroyed >>

\* _swapChainImageFormat and _swapChainExtent are assigned before the
\* swapchain is created; the window is asked for its size only when
\* chooseSwapExtent takes its second branch; getImages answers the images
\* asked for, or one more
createSwapChain ==
    /\ pc = "createSwapChain"
    /\ stages' = Append(stages, "createSwapChain")
    /\ \E in \in SwapChainInputs, created \in BOOLEAN, more \in 0 .. 1 :
          LET info == SwapchainCreateInfo(in.capabilities, in.formats, in.presentModes,
                                          in.window)
              asked == in.capabilities.currentExtent.width = UINT32_MAX
          IN  /\ frame' = [Call("createSwapChain") EXCEPT
                               !.surfaceCapabilities = in.capabilities,
                               !.availableFormats = in.formats,
                               !.availablePresentModes = in.presentModes,
                               !.windowSizeInPixels = IF asked THEN in.window ELSE @,
                               !.swapChainCreateInfo = info]
              /\ _swapChainImageFormat' = info.imageFormat
              /\ _swapChainExtent' = info.imageExtent
              /\ IF created
                     THEN /\ _swapChain' = [state |-> "alive", createInfo |-> info]
                          /\ _swapChainImages' = info.minImageCount + more
                          /\ Return("createImageViews")
                     ELSE /\ Throw("vk::SystemError: vkCreateSwapchainKHR")
                          /\ UNCHANGED << _swapChain, _swapChainImages >>
    /\ UNCHANGED << _window, _context, _instance, _debugMessenger, _physicalDevice, _device,
                    _surface, _graphicsQueue, _presentQueue, _swapChainImageViews,
                    enableValidationLayers, sdlInitialized, vulkanLibraryLoaded,
                    exitStatus, released, destroyed >>

\* one view per image, in order; the view that cannot be created throws and
\* leaves the views created before it in the vector
createImageViews ==
    /\ pc = "createImageViews"
    /\ stages' = Append(stages, "createImageViews")
    /\ frame' = Call("createImageViews")
    /\ \E created \in 0 .. _swapChainImages :
          /\ _swapChainImageViews' = created
          /\ IF created = _swapChainImages
                 THEN Return("mainLoop")
                 ELSE Throw("vk::SystemError: vkCreateImageView")
    /\ UNCHANGED << _window, _context, _instance, _debugMessenger, _physicalDevice, _device,
                    _surface, _graphicsQueue, _presentQueue, _swapChain, _swapChainImages,
                    _swapChainImageFormat, _swapChainExtent,
                    enableValidationLayers, sdlInitialized, vulkanLibraryLoaded,
                    exitStatus, released, destroyed >>

\* one pass of the outer while: the events polled hold SDL_EVENT_QUIT or not
mainLoop ==
    /\ pc = "mainLoop"
    /\ stages' = IF frame.call = "mainLoop" THEN stages ELSE Append(stages, "mainLoop")
    /\ frame' = Call("mainLoop")
    /\ \E quit \in BOOLEAN : Return(IF quit THEN "cleanup" ELSE "mainLoop")
    /\ UNCHANGED << members, enableValidationLayers, sdlInitialized, vulkanLibraryLoaded,
                    exitStatus, released, destroyed >>

\* SDL_DestroyWindow(NULL) destroys nothing
cleanup ==
    /\ pc = "cleanup"
    /\ stages' = Append(stages, "cleanup")
    /\ frame' = Call("cleanup")
    /\ _window' = IF _window = "alive" THEN "destroyed" ELSE _window
    /\ vulkanLibraryLoaded' = FALSE
    /\ sdlInitialized' = FALSE
    /\ Return("return")
    /\ UNCHANGED << _context, _instance, _debugMessenger, _physicalDevice, _device,
                    _surface, _graphicsQueue, _presentQueue, _swapChain, _swapChainImages,
                    _swapChainImageFormat, _swapChainExtent, _swapChainImageViews,
                    enableValidationLayers, exitStatus, released, destroyed >>

\* run() returned: return EXIT_SUCCESS, and app goes out of scope
MainReturn ==
    /\ pc = "return"
    /\ exitStatus' = "EXIT_SUCCESS"
    /\ pc' = "destruct"
    /\ UNCHANGED << members, enableValidationLayers, sdlInitialized, vulkanLibraryLoaded,
                    exception, stages, released, destroyed, frame >>

\* catch (const std::exception&): return EXIT_FAILURE, and app goes out of scope
MainCatch ==
    /\ pc = "catch"
    /\ exitStatus' = "EXIT_FAILURE"
    /\ pc' = "destruct"
    /\ UNCHANGED << members, enableValidationLayers, sdlInitialized, vulkanLibraryLoaded,
                    exception, stages, released, destroyed, frame >>

\* the non-static data members in the order the class declares them
MemberOrder ==
    << "_window", "_context", "_instance", "_debugMessenger", "_physicalDevice", "_device",
       "_surface", "_graphicsQueue", "_presentQueue", "_swapChain", "_swapChainImages",
       "_swapChainImageFormat", "_swapChainExtent", "_swapChainImageViews",
       "_requiredDeviceExtensions" >>

\* the member ~VulkanTutorialApp() destroys next: the last declared that is left
NextMember == MemberOrder[Len(MemberOrder) - destroyed]

\* whether destroying member m destroys a Vulkan object
OwnsObject(m) ==
    \/ m = "_swapChainImageViews" /\ _swapChainImageViews > 0
    \/ m = "_swapChain" /\ _swapChain.state = "alive"
    \/ m = "_surface" /\ _surface = "alive"
    \/ m = "_device" /\ _device.state = "alive"
    \/ m = "_debugMessenger" /\ _debugMessenger = "alive"
    \/ m = "_instance" /\ _instance.state = "alive"

\* the implicit destructor destroys one member; the vk::raii handles that
\* own an object destroy it, the other members own nothing
DestroyMember ==
    /\ pc = "destruct"
    /\ LET m == NextMember
       IN  /\ released' = IF OwnsObject(m) THEN Append(released, m) ELSE released
           /\ _swapChainImageViews' = IF m = "_swapChainImageViews" THEN 0
                                                                    ELSE _swapChainImageViews
           /\ _swapChainImages' = IF m = "_swapChainImages" THEN 0 ELSE _swapChainImages
           /\ _swapChain' = IF m = "_swapChain" /\ _swapChain.state = "alive"
                                THEN [_swapChain EXCEPT !.state = "destroyed"]
                                ELSE _swapChain
           /\ _surface' = IF m = "_surface" /\ _surface = "alive" THEN "destroyed" ELSE _surface
           /\ _device' = IF m = "_device" /\ _device.state = "alive"
                             THEN [_device EXCEPT !.state = "destroyed"]
                             ELSE _device
           /\ _debugMessenger' = IF m = "_debugMessenger" /\ _debugMessenger = "alive"
                                     THEN "destroyed"
                                     ELSE _debugMessenger
           /\ _instance' = IF m = "_instance" /\ _instance.state = "alive"
                               THEN [_instance EXCEPT !.state = "destroyed"]
                               ELSE _instance
           /\ _context' = IF m = "_context" THEN "destroyed" ELSE _context
    /\ destroyed' = destroyed + 1
    /\ pc' = IF destroyed + 1 = Len(MemberOrder) THEN "exited" ELSE "destruct"
    /\ UNCHANGED << _window, _physicalDevice, _graphicsQueue, _presentQueue,
                    _swapChainImageFormat, _swapChainExtent,
                    enableValidationLayers, sdlInitialized, vulkanLibraryLoaded,
                    exception, exitStatus, stages, frame >>

Next ==
    \/ SDL_Init
    \/ SDL_Vulkan_LoadLibrary
    \/ SDL_CreateWindow
    \/ initVulkanInstance
    \/ setupDebugMessenger
    \/ createSurface
    \/ pickPhysicalDevice
    \/ createLogicalDevice
    \/ createSwapChain
    \/ createImageViews
    \/ mainLoop
    \/ cleanup
    \/ MainReturn
    \/ MainCatch
    \/ DestroyMember

Spec == Init /\ [][Next]_vars

(***************************************************************************)
(* Properties of the program, stated over the locals and results of the    *)
(* calls.                                                                  *)
(***************************************************************************)
InCreateSwapChain == frame.call = "createSwapChain"

\* C1: for capabilities with minImageCount <= maxImageCount or
\* maxImageCount = 0, the image count createSwapChain requests is
\* max(3, minImageCount) when maxImageCount = 0 or max(3, minImageCount) <=
\* maxImageCount, and maxImageCount when 0 < maxImageCount < max(3,
\* minImageCount); it is never below minImageCount and never above a nonzero
\* maxImageCount; the swapchain that is created carries that count.
C1_ImageCountWithinSurfaceLimits ==
    InCreateSwapChain =>
        LET lo == frame.surfaceCapabilities.minImageCount
            hi == frame.surfaceCapabilities.maxImageCount
            target == IF lo > 3 THEN lo ELSE 3
            count == frame.swapChainCreateInfo.minImageCount
        IN  (lo <= hi \/ hi = 0) =>
                /\ (hi = 0 \/ target <= hi) => count = target
                /\ (hi > 0 /\ target > hi) => count = hi
                /\ count >= lo
                /\ hi # 0 => count <= hi
                /\ _swapChain.state = "alive" => _swapChain.createInfo.minImageCount = count

\* a swapchain was created for a surface whose nonzero maxImageCount is below
\* max(3, minImageCount)
C1_Witness ==
    /\ InCreateSwapChain
    /\ _swapChain.state = "alive"
    /\ frame.surfaceCapabilities.minImageCount = 2
    /\ frame.surfaceCapabilities.maxImageCount = 2
    /\ _swapChain.createInfo.minImageCount = 2

PreferredPair == [format |-> "eB8G8R8A8Srgb", colorSpace |-> "eSrgbNonlinear"]

ConfiguredPair ==
    [format |-> frame.swapChainCreateInfo.imageFormat,
     colorSpace |-> frame.swapChainCreateInfo.imageColorSpace]

\* C2: for every non-empty list of supported surface formats, the (format,
\* color space) pair the swapchain is configured with is the preferred pair
\* whenever that pair occurs in the list, otherwise exactly the first entry
\* of the list (format and color space); in every case it is a member of the
\* list.
C2_ConfiguredPairIsSupported ==
    (InCreateSwapChain /\ frame.availableFormats # << >>) =>
        /\ PreferredPair \in Range(frame.availableFormats) => ConfiguredPair = PreferredPair
        /\ PreferredPair \notin Range(frame.availableFormats) =>
                ConfiguredPair = frame.availableFormats[1]
        /\ ConfiguredPair \in Range(frame.availableFormats)

\* r is v clamped into [lo, hi]
IsClamped(r, v, lo, hi) ==
    /\ v < lo => r = lo
    /\ v > hi => r = hi
    /\ (lo <= v /\ v <= hi) => r = v

\* the window's pixel size clamped componentwise into the surface's bounds
IsClampedWindow(extent) ==
    /\ IsClamped(extent.width, frame.windowSizeInPixels.width,
                 frame.surfaceCapabilities.minImageExtent.width,
                 frame.surfaceCapabilities.maxImageExtent.width)
    /\ IsClamped(extent.height, frame.windowSizeInPixels.height,
                 frame.surfaceCapabilities.minImageExtent.height,
                 frame.surfaceCapabilities.maxImageExtent.height)

\* C3 as stated: the window size clamped when currentExtent is (UINT32_MAX,
\* UINT32_MAX), and currentExtent unchanged for every other currentExtent,
\* one with a single component equal to UINT32_MAX included.
C3_Original_SentinelIsBothComponents ==
    InCreateSwapChain =>
        LET cur == frame.surfaceCapabilities.currentExtent
        IN  IF cur.width = UINT32_MAX /\ cur.height = UINT32_MAX
                THEN IsClampedWindow(_swapChainExtent)
                ELSE _swapChainExtent = cur

\* C3 (amended): chooseSwapExtent returns the window's pixel width and height
\* each clamped into [minImageExtent, maxImageExtent] of the same component
\* whenever currentExtent.width is UINT32_MAX, whatever currentExtent.height
\* is; for every other currentExtent (one whose height alone is UINT32_MAX
\* included) it returns currentExtent unchanged.
C3_SentinelIsWidthAlone ==
    InCreateSwapChain =>
        LET cur == frame.surfaceCapabilities.currentExtent
        IN  /\ IF cur.width = UINT32_MAX
                   THEN IsClampedWindow(_swapChainExtent)
                   ELSE _swapChainExtent = cur
            /\ frame.swapChainCreateInfo.imageExtent = _swapChainExtent

\* the width alone is UINT32_MAX and the window is wider than the surface
\* allows: the extent is the clamped window size, not currentExtent
C3_Witness ==
    /\ InCreateSwapChain
    /\ frame.surfaceCapabilities.currentExtent = Extent2D(UINT32_MAX, 1)
    /\ frame.surfaceCapabilities.maxImageExtent = Extent2D(2, 2)
    /\ frame.windowSizeInPixels = Extent2D(3, 2)
    /\ _swapChainExtent = Extent2D(2, 2)

InPickPhysicalDevice == frame.call = "pickPhysicalDevice"

NoDeviceFound == "failed to find GPUs with Vulkan support!"

NoSuitableDevice == "failed to find a suitable GPU!"

\* the four clauses: API version, a graphics family, every required
\* extension, both required features
MeetsAllFour(d) ==
    /\ d.apiVersion >= VK_API_VERSION_1_4
    /\ TRUE \in Range(d.queueFlags)
    /\ { "VK_KHR_swapchain", "VK_KHR_spirv_1_4", "VK_KHR_synchronization2",
         "VK_KHR_create_renderpass2" } \subseteq d.extensions
    /\ d.dynamicRendering
    /\ d.extendedDynamicState

\* C4: for every non-empty device list, pickPhysicalDevice selects the
\* candidate of lowest enumeration index that satisfies all four clauses; a
\* candidate failing a clause is never selected and no later passing
\* candidate is preferred over an earlier passing one.
C4_FirstSuitableDeviceSelected ==
    /\ _physicalDevice.state = "valid" => MeetsAllFour(_physicalDevice)
    /\ (InPickPhysicalDevice /\ frame.devices # << >>) =>
           LET ds == frame.devices
               passing == { i \in DOMAIN ds : MeetsAllFour(ds[i]) }
           IN  /\ passing # {} =>
                      /\ _physicalDevice.state = "valid"
                      /\ frame.deviceIter \in passing
                      /\ \A j \in passing : frame.deviceIter <= j
                      /\ _physicalDevice = ds[frame.deviceIter]
               /\ passing = {} => _physicalDevice.state = "null"

\* candidate 0 fails the extension check alone, candidate 1 passes: 1 is selected
C4_Witness ==
    /\ InPickPhysicalDevice
    /\ Len(frame.devices) = 2
    /\ frame.devices[1].apiVersion >= VK_API_VERSION_1_4
    /\ TRUE \in Range(frame.devices[1].queueFlags)
    /\ frame.devices[1].dynamicRendering /\ frame.devices[1].extendedDynamicState
    /\ "VK_KHR_swapchain" \notin frame.devices[1].extensions
    /\ MeetsAllFour(frame.devices[2])
    /\ _physicalDevice = frame.devices[2]

LaterThanPickPhysicalDevice == { "createLogicalDevice", "createSwapChain", "createImageViews" }

\* C5: pickPhysicalDevice fails with NoDeviceFound iff the enumeration is
\* empty, and with the distinct NoSuitableDevice iff it is non-empty and no
\* candidate satisfies all four clauses; in both cases no physical device is
\* selected and no later stage runs.
C5_DeviceSelectionErrors ==
    /\ InPickPhysicalDevice =>
           /\ exception = NoDeviceFound <=> frame.devices = << >>
           /\ exception = NoSuitableDevice <=>
                  /\ frame.devices # << >>
                  /\ \A i \in DOMAIN frame.devices : ~MeetsAllFour(frame.devices[i])
    /\ exception \in { NoDeviceFound, NoSuitableDevice } =>
           /\ _physicalDevice.state = "null"
           /\ Range(stages) \cap LaterThanPickPhysicalDevice = {}
           /\ _device.state = "null" /\ _swapChain.state = "null" /\ _swapChainImageViews = 0
           /\ pc \in { "catch", "destruct", "exited" }

\* the run has ended after devices were enumerated and none was suitable
C5_Witness ==
    /\ pc = "exited"
    /\ exception = NoSuitableDevice
    /\ Len(frame.devices) = 2
    /\ "pickPhysicalDevice" \in Range(stages)

InCreateLogicalDevice == frame.call = "createLogicalDevice"

\* the families (numbered from 0) that support graphics / presentation
GraphicsFamilies ==
    { i \in 0 .. Len(_physicalDevice.queueFlags) - 1 : _physicalDevice.queueFlags[i + 1] }

PresentFamilies ==
    { i \in 0 .. Len(frame.surfaceSupport) - 1 : frame.surfaceSupport[i + 1] }

CombinedFamilies == GraphicsFamilies \cap PresentFamilies

MissingQueue == "Could not find a queue for graphics or present -> terminating"

UnsupportedQueueTopology == "Could not find a queue for both graphics and present."

DriverRefusedDevice == "vk::SystemError: vkCreateDevice"

\* the device, when one exists, is on the lowest family supporting both, both
\* queue handles use that family and no higher family was queried
DeviceOnLowestCombinedFamily ==
    LET lowest == Min(CombinedFamilies)
    IN  /\ \A i \in frame.queried : i <= lowest
        /\ exception \in { NoException, DriverRefusedDevice }
        /\ exception = NoException =>
               /\ _device.state = "alive"
               /\ _device.queueFamilyIndex = lowest
               /\ _graphicsQueue.queueFamilyIndex = lowest
               /\ _presentQueue.queueFamilyIndex = lowest
        /\ exception = DriverRefusedDevice => _device.state = "null"

\* C6 as stated: with a family supporting both, the device is created on the
\* lowest such index, both queue handles use it and no higher family is
\* queried; with none, whether or not graphics-only or present-only families
\* exist, it fails with the single error UnsupportedQueueTopology and no
\* logical device is created.  (A device the driver refuses to create is
\* not held against the statement.)
C6_Original_SingleErrorKind ==
    InCreateLogicalDevice =>
        IF CombinedFamilies # {}
            THEN DeviceOnLowestCombinedFamily
            ELSE exception = UnsupportedQueueTopology /\ _device.state = "null"

\* C6 (amended): with a family supporting both, createLogicalDevice creates
\* the device on the lowest such index unless the driver refuses the device,
\* both queue handles use that index and no higher family is queried; with
\* none, no logical device is created and it fails with one of two errors:
\* "Could not find a queue for graphics or present" when no family supports
\* graphics or no family supports presentation, UnsupportedQueueTopology
\* when both kinds of family exist but no family is both.
C6_TwoErrorKinds ==
    InCreateLogicalDevice =>
        IF CombinedFamilies # {}
            THEN DeviceOnLowestCombinedFamily
            ELSE /\ _device.state = "null"
                 /\ _graphicsQueue.state = "null" /\ _presentQueue.state = "null"
                 /\ IF GraphicsFamilies = {} \/ PresentFamilies = {}
                        THEN exception = MissingQueue
                        ELSE exception = UnsupportedQueueTopology

\* a device with a graphics family and no family presenting to the surface
C6_Witness ==
    /\ InCreateLogicalDevice
    /\ GraphicsFamilies # {}
    /\ PresentFamilies = {}
    /\ exception = MissingQueue
    /\ _device.state = "null"

InInitVulkanInstance == frame.call = "initVulkanInstance"

\* the layers and instance extensions the build requires
ExpectedLayers == IF enableValidationLayers THEN << "VK_LAYER_KHRONOS_validation" >> ELSE << >>

ExpectedExtensions ==
    IF enableValidationLayers
        THEN << "VK_KHR_surface", "VK_KHR_xcb_surface", "VK_EXT_debug_utils" >>
        ELSE << "VK_KHR_surface", "VK_KHR_xcb_surface" >>

AbsentLayers == Range(ExpectedLayers) \ frame.layerProperties

AbsentExtensions == Range(ExpectedExtensions) \ frame.extensionProperties

MissingCapability ==
    { "Required layer not supported: " \o n : n \in Range(ExpectedLayers) }
    \cup { "Required extension not supported: " \o n : n \in Range(ExpectedExtensions) }

\* C7: initVulkanInstance is fail-fast: if a required layer or a required
\* instance extension is absent from the available set, it fails with
\* MissingCapability naming an absent item and the instance is never created
\* (the handle stays null); the instance is created only when every required
\* layer and extension is available, and then enables exactly the required
\* layers and extensions.
C7_InstanceFailFast ==
    /\ InInitVulkanInstance =>
           /\ AbsentLayers # {} =>
                  \E n \in AbsentLayers : exception = "Required layer not supported: " \o n
           /\ (AbsentLayers = {} /\ AbsentExtensions # {}) =>
                  \E n \in AbsentExtensions :
                      exception = "Required extension not supported: " \o n
           /\ _instance.state = "alive" => (AbsentLayers = {} /\ AbsentExtensions = {})
    /\ exception \in MissingCapability =>
           /\ _instance.state = "null"
           /\ pc \in { "catch", "destruct", "exited" }
    /\ _instance.state # "null" =>
           /\ _instance.layers = ExpectedLayers
           /\ _instance.extensions = ExpectedExtensions

\* the validation layer is there and VK_EXT_debug_utils, required by the
\* build, is not: the failure names it and there is no instance
C7_Witness ==
    /\ InInitVulkanInstance
    /\ enableValidationLayers
    /\ "VK_LAYER_KHRONOS_validation" \in frame.layerProperties
    /\ frame.extensionProperties = { "VK_KHR_surface", "VK_KHR_xcb_surface" }
    /\ exception = "Required extension not supported: VK_EXT_debug_utils"
    /\ _instance.state = "null"

\* C8: chooseSwapPresentMode returns mailbox iff mailbox occurs in the list
\* of supported present modes, and FIFO in every other case, an empty list
\* and a list without FIFO included.
C8_PresentModeMailboxIffOffered ==
    InCreateSwapChain =>
        LET mode == frame.swapChainCreateInfo.presentMode
        IN  /\ mode = "eMailbox" <=> "eMailbox" \in Range(frame.availablePresentModes)
            /\ mode # "eMailbox" => mode = "eFifo"
            /\ _swapChain.state = "alive" => _swapChain.createInfo.presentMode = mode

\* a list holding neither mailbox nor FIFO: FIFO is returned
C8_Witness ==
    /\ InCreateSwapChain
    /\ frame.availablePresentModes = << "eImmediate" >>
    /\ frame.swapChainCreateInfo.presentMode = "eFifo"

\* the stages of initialization in their fixed order
StageOrder ==
    << "initVulkanInstance", "setupDebugMessenger", "createSurface", "pickPhysicalDevice",
       "createLogicalDevice", "createSwapChain", "createImageViews" >>

\* the stages among the calls started so far, in the order they started
RECURSIVE StagesOf(_)
StagesOf(calls) ==
    IF calls = << >> THEN << >>
    ELSE IF Head(calls) \in Range(StageOrder)
        THEN << Head(calls) >> \o StagesOf(Tail(calls))
        ELSE StagesOf(Tail(calls))

\* a step of init() has failed: it threw, or the window was not created
InitStepFailed ==
    \/ exception # NoException
    \/ "SDL_CreateWindow" \in Range(stages) /\ _window = "null"

\* C9: the stages run in the fixed order instance, diagnostics, surface,
\* physical device, logical device, swapchain, image views, and one starts
\* only after every earlier step succeeded; when a step of init fails (window
\* creation included) no later stage runs, nothing is retried, the main loop
\* is never entered and the run ends with failure reported to the caller.
C9_FailureEndsTheRun ==
    /\ StagesOf(stages) = SubSeq(StageOrder, 1, Len(StagesOf(stages)))
    /\ InitStepFailed =>
           /\ "mainLoop" \notin Range(stages)
           /\ pc \in { "catch", "destruct", "exited" }
           /\ exitStatus # "EXIT_SUCCESS"
           /\ pc = "exited" => exitStatus = "EXIT_FAILURE"

\* the six kinds of object in reverse order of their acquisition
ReverseAcquisition ==
    << "_swapChainImageViews", "_swapChain", "_device", "_surface", "_debugMessenger",
       "_instance" >>

PlaceIn(order, m) == CHOOSE i \in DOMAIN order : order[i] = m

\* C10: whenever the application is torn down, after a failure at any stage
\* or after a normal exit, the objects that were created are released in
\* strict reverse order of acquisition: image views, swapchain, logical
\* device, surface, diagnostics messenger, instance; the logical device is
\* released before the surface.
C10_ReleasedInReverseAcquisitionOrder ==
    \A i, j \in DOMAIN released :
        i < j => PlaceIn(ReverseAcquisition, released[i]) < PlaceIn(ReverseAcquisition, released[j])


\* a Vulkan object the application owns is alive
VulkanObjectAlive ==
    \/ _instance.state = "alive"
    \/ _debugMessenger = "alive"
    \/ _surface = "alive"
    \/ _device.state = "alive"
    \/ _swapChain.state = "alive"
    \/ _swapChainImageViews > 0

\* C11: in every reachable state, on the normal-exit path and on every
\* failure path, while a Vulkan object owned by the application (instance,
\* surface, logical device, swapchain, image views) is alive, the window the
\* surface is bound to has not been destroyed, the Vulkan library has not
\* been unloaded and SDL has not been shut down: cleanup's effects come only
\* after every Vulkan object is released.
C11_WindowAndLibraryOutliveVulkanObjects ==
    VulkanObjectAlive =>
        /\ _window # "destroyed"
        /\ vulkanLibraryLoaded
        /\ sdlInitialized
        /\ "cleanup" \notin Range(stages)

====
